---- MODULE Spec2Model ----
(***************************************************************************)
(* Model of `reth p2p header` / `reth p2p body`                            *)
(* (crates/cli/commands/src/p2p/mod.rs).                                   *)
(*                                                                         *)
(* One foreground flow runs Command::execute: DownloadArgs::launch_network *)
(* (load config, merge trusted peers, check, load key, build and spawn the *)
(* network), fetch_client, backoff, then the requests wrapped in           *)
(* backon's Retry.  The peer side answers an outstanding request with a    *)
(* success or a failure.  Beside the program's own state the model keeps   *)
(* an observation of the run: how often each wrapped closure and each      *)
(* notify closure was called, what was asked of the peers, what they       *)
(* answered and how long the flow slept.                                   *)
(***************************************************************************)
EXTENDS Integers, Sequences, FiniteSets, TLC

(* ------------------------------ bounds -------------------------------- *)
MaxRetries == 2      \* --retries ranges over 0..MaxRetries
NumPeers   == 2      \* trusted peer records 1..NumPeers
MaxBodyLen == 2      \* a bodies response holds 0..MaxBodyLen entries

(* ----------------------- program constants ---------------------------- *)
DefaultDelayMs == 1000   \* ConstantBuilder::default(): delay of 1 s, no jitter

Peers   == 1..NumPeers
Heights == {0, 1}                               \* block numbers an id or a header can name
Hashes  == {1, 2}                               \* block hashes (B256 values)
Errors  == {"Timeout", "ConnectionDropped"}     \* request errors a peer round trip ends in
Bodies  == {"bodyA", "bodyB"}                   \* opaque block bodies
Sites   == {"header", "lookup", "body"}         \* the three .retry(backoff) call sites

VARIABLES
    command,        \* Subcommands::{Header,Body} { id }
    args,           \* DownloadArgs: retries, network.trusted_peers, network.trusted_only
    config,         \* launch_network's local `config` (with what from_path returned),
                    \* None before it is loaded and after the handle is returned
    pc,             \* position of the foreground flow
    p2p_secret_key, \* TRUE once get_secret_key returned a key
    net,            \* the network: state "none" | "built" | "spawned", its peers config,
                    \* and the peer sessions the spawned manager holds
    fetch_client,   \* TRUE once handle.fetch_client() returned a client
    backoff,        \* the ConstantBuilder returned by args.backoff()
    site,           \* which wrapped request is running: "none" or one of Sites
    attempts,       \* ConstantBackoff.attempts of the running Retry
    inflight,       \* requests issued and not yet answered
    response,       \* the answer the running attempt resolved to
    header,         \* the local `header`
    hash,           \* the local `hash`
    out,            \* lines printed by execute itself (notice, success)
    result,         \* what execute returns
    \* observation of the run
    reqs,           \* per site, how many times the closure was called
    notes,          \* per site, how many times the notify closure was called
    noted_err,      \* the error the latest notification carried
    answers,        \* per site, the latest answer the peer side gave
    asked_headers,  \* every id a header was requested for
    asked_bodies,   \* every hash list bodies were requested for
    delays          \* the durations the flow slept between attempts, in order

prog == <<command, args, config, pc, p2p_secret_key, net, fetch_client,
          backoff, site, attempts, inflight, response, header, hash, out, result>>
obs  == <<reqs, notes, noted_err, answers, asked_headers, asked_bodies, delays>>
vars == <<prog, obs>>

(* ------------------------------ values -------------------------------- *)
NoneV   == [some |-> FALSE]
Some(v) == [some |-> TRUE, val |-> v]

Ok(v)      == [ok |-> TRUE, val |-> v]
Failed(e)  == [ok |-> FALSE, err |-> e]

Running == [status |-> "running"]
OkUnit  == [status |-> "ok"]
Err(kind, detail) == [status |-> "err", kind |-> kind, detail |-> detail]

HashId(h)   == [tag |-> "Hash", val |-> h]
NumberId(n) == [tag |-> "Number", val |-> n]
Ids == {HashId(h) : h \in Hashes} \cup {NumberId(n) : n \in Heights}

Headers == [number : Heights, parent_hash : Hashes]

(* Header::hash(): a deterministic digest of the header's content. *)
hash_slow(h) == ((h.number + h.parent_hash) % Cardinality(Hashes)) + 1

Max(a, b) == IF a >= b THEN a ELSE b

(* Config::default().peers *)
DefaultPeersConfig == [trusted_nodes |-> {}, trusted_nodes_only |-> FALSE]

PeersConfigs == [trusted_nodes : SUBSET Peers, trusted_nodes_only : BOOLEAN]

(* The results Config::from_path can give: a parsed file, or an error. *)
FromPathResults == {Ok(c) : c \in PeersConfigs} \cup {Failed("ConfigError")}

(* Result::unwrap_or_default *)
unwrap_or_default(r) == IF r.ok THEN r.val ELSE DefaultPeersConfig

RECURSIVE SeqsUpTo(_, _)
SeqsUpTo(S, n) ==
    IF n = 0 THEN {<<>>}
    ELSE LET shorter == SeqsUpTo(S, n - 1)
         IN  shorter \cup {Append(s, x) : s \in {t \in shorter : Len(t) = n - 1}, x \in S}

(* bodies responses: WithPeerId<Vec<Body>> *)
BodiesResponses == [peer_id : {"peer"}, data : SeqsUpTo(Bodies, MaxBodyLen)]

(* WithPeerId::split *)
split(r) == <<r.peer_id, r.data>>


(* Variant: the retry count passed on as retries + 1. *)
backoff_builder_plus_one(r) == [delay |-> DefaultDelayMs, max_times |-> r + 1]

(* DownloadArgs::backoff *)
backoff_builder(r) == [delay |-> DefaultDelayMs, max_times |-> Max(r, 1)]

(* Variant: a delay that grows with the number of retries made. *)
backoff_next_growing(b, n) == IF n >= b.max_times THEN NoneV ELSE Some(b.delay * (n + 1))

(* ConstantBackoff::next (backon): Some(delay) while fewer than max_times  *)
(* delays have been handed out, None afterwards.  max_times therefore      *)
(* bounds the number of retries; the first call is made unconditionally.   *)
backoff_next(b, n) == IF n >= b.max_times THEN NoneV ELSE Some(b.delay)

Zero == [s \in Sites |-> 0]

(* ------------------------------- Init --------------------------------- *)
Init ==
    /\ command \in [kind : {"Header", "Body"}, id : Ids]
    /\ args \in [retries : 0..MaxRetries, trusted_peers : SUBSET Peers,
                 trusted_only : BOOLEAN]
    /\ config = NoneV
    /\ pc = "load_config"
    /\ p2p_secret_key = FALSE
    /\ net = [state |-> "none", peers |-> DefaultPeersConfig, sessions |-> 0]
    /\ fetch_client = FALSE
    /\ backoff = NoneV
    /\ site = "none"
    /\ attempts = 0
    /\ inflight = <<>>
    /\ response = NoneV
    /\ header = NoneV
    /\ hash = NoneV
    /\ out = <<>>
    /\ result = Running
    /\ reqs = Zero
    /\ notes = Zero
    /\ noted_err = NoneV
    /\ answers = [s \in Sites |-> NoneV]
    /\ asked_headers = {}
    /\ asked_bodies = {}
    /\ delays = <<>>

(* --------------------------- launch_network --------------------------- *)
(* let mut config = Config::from_path(&config_path).unwrap_or_default();   *)
LoadConfig ==
    /\ pc = "load_config"
    /\ \E r \in FromPathResults :
         config' = Some([loaded |-> r, peers |-> unwrap_or_default(r)])
    /\ pc' = "extend"
    /\ UNCHANGED <<command, args, p2p_secret_key, net, fetch_client, backoff, site,
                   attempts, inflight, response, header, hash, out, result, obs>>

(* Variant: the CLI peers replace the loaded ones instead of extending them. *)
ExtendTrusted_overwrite ==
    /\ pc = "extend"
    /\ config' = [config EXCEPT !.val.peers.trusted_nodes = args.trusted_peers]
    /\ pc' = "check"
    /\ UNCHANGED <<command, args, p2p_secret_key, net, fetch_client, backoff, site,
                   attempts, inflight, response, header, hash, out, result, obs>>

(* config.peers.trusted_nodes.extend(self.network.trusted_peers.clone());  *)
ExtendTrusted ==
    /\ pc = "extend"
    /\ config' = [config EXCEPT !.val.peers.trusted_nodes = @ \cup args.trusted_peers]
    /\ pc' = "check"
    /\ UNCHANGED <<command, args, p2p_secret_key, net, fetch_client, backoff, site,
                   attempts, inflight, response, header, hash, out, result, obs>>

(* Variant: the emptiness test looks at the CLI peers only. *)
no_trusted_nodes_cli_only(c, a) == a.trusted_peers = {} /\ a.trusted_only

no_trusted_nodes(c, a) == c.trusted_nodes = {} /\ a.trusted_only

(* Variant: the check does not return; the launch goes on. *)
CheckTrusted_no_bail ==
    /\ pc = "check"
    /\ pc' = "set_only"
    /\ UNCHANGED <<command, args, config, p2p_secret_key, net, fetch_client, backoff,
                   site, attempts, inflight, response, header, hash, out, result, obs>>

(* if config.peers.trusted_nodes.is_empty() && trusted_only { bail!(..) }  *)
CheckTrusted ==
    /\ pc = "check"
    /\ IF no_trusted_nodes(config.val.peers, args)
       THEN /\ result' = Err("NoTrustedNodes", "")
            /\ pc' = "done"
       ELSE /\ result' = result
            /\ pc' = "set_only"
    /\ UNCHANGED <<command, args, config, p2p_secret_key, net, fetch_client, backoff, site,
                   attempts, inflight, response, header, hash, out, obs>>

(* config.peers.trusted_nodes_only = self.network.trusted_only;            *)
SetTrustedOnly ==
    /\ pc = "set_only"
    /\ config' = [config EXCEPT !.val.peers.trusted_nodes_only = args.trusted_only]
    /\ pc' = "secret_key"
    /\ UNCHANGED <<command, args, p2p_secret_key, net, fetch_client, backoff, site,
                   attempts, inflight, response, header, hash, out, result, obs>>

(* Variant: a key that cannot be loaded is passed over and the launch goes *)
(* on (unwrap_or_default in place of `?`).                                 *)
GetSecretKey_or_default ==
    /\ pc = "secret_key"
    /\ \E ok \in BOOLEAN : p2p_secret_key' = ok
    /\ pc' = "manager"
    /\ UNCHANGED <<command, args, config, net, fetch_client, backoff, site,
                   attempts, inflight, response, header, hash, out, result, obs>>

(* let p2p_secret_key = get_secret_key(&secret_key_path)?;                 *)
GetSecretKey ==
    /\ pc = "secret_key"
    /\ \E ok \in BOOLEAN :
         IF ok
         THEN /\ p2p_secret_key' = TRUE
              /\ pc' = "manager"
              /\ result' = result
         ELSE /\ p2p_secret_key' = FALSE
              /\ pc' = "done"
              /\ result' = Err("SecretKey", "")
    /\ UNCHANGED <<command, args, config, net, fetch_client, backoff, site,
                   attempts, inflight, response, header, hash, out, obs>>

(* Config::peers_config_with_basic_nodes_from_file(None): the peers        *)
(* configuration as merged; without a peers file no node is added.         *)
peers_config_with_basic_nodes_from_file(c) == c.peers

(* NetworkConfigBuilder::new(key).peer_config(..)...manager().await?       *)
BuildManager ==
    /\ pc = "manager"
    /\ \E ok \in BOOLEAN :
         IF ok
         THEN /\ net' = [state |-> "built",
                          peers |-> peers_config_with_basic_nodes_from_file(config.val),
                          sessions |-> 0]
              /\ pc' = "spawn"
              /\ result' = result
         ELSE /\ net' = net
              /\ pc' = "done"
              /\ result' = Err("Network", "")
    /\ UNCHANGED <<command, args, config, p2p_secret_key, fetch_client, backoff, site,
                   attempts, inflight, response, header, hash, out, obs>>

(* Variant: the handle is returned without the manager being spawned. *)
SpawnNet_not_spawned ==
    /\ pc = "spawn"
    /\ config' = NoneV
    /\ pc' = "fetch_client"
    /\ UNCHANGED <<command, args, p2p_secret_key, net, fetch_client, backoff, site,
                   attempts, inflight, response, header, hash, out, result, obs>>

(* let handle = net.handle().clone(); tokio::task::spawn(net); Ok(handle)  *)
SpawnNet ==
    /\ pc = "spawn"
    /\ net' = [net EXCEPT !.state = "spawned"]
    /\ config' = NoneV
    /\ pc' = "fetch_client"
    /\ UNCHANGED <<command, args, p2p_secret_key, fetch_client, backoff, site,
                   attempts, inflight, response, header, hash, out, result, obs>>

(* ------------------------------ execute ------------------------------- *)
(* Variant: the outcome of fetch_client() is not looked at. *)
FetchClient_unchecked ==
    /\ pc = "fetch_client"
    /\ net.state = "spawned"
    /\ \E ok \in BOOLEAN : fetch_client' = ok
    /\ pc' = "backoff"
    /\ UNCHANGED <<command, args, config, p2p_secret_key, net, backoff, site,
                   attempts, inflight, response, header, hash, out, result, obs>>

(* let fetch_client = handle.fetch_client().await?;                        *)
FetchClient ==
    /\ pc = "fetch_client"
    /\ net.state = "spawned"
    /\ \E ok \in BOOLEAN :
         IF ok
         THEN /\ fetch_client' = TRUE
              /\ pc' = "backoff"
              /\ result' = result
         ELSE /\ fetch_client' = FALSE
              /\ pc' = "done"
              /\ result' = Err("FetchClient", "")
    /\ UNCHANGED <<command, args, config, p2p_secret_key, net, backoff, site,
                   attempts, inflight, response, header, hash, out, obs>>

(* let backoff = args.backoff();                                           *)
Backoff ==
    /\ pc = "backoff"
    /\ backoff' = Some(backoff_builder(args.retries))
    /\ pc' = IF command.kind = "Header" THEN "retry_header" ELSE "resolve"
    /\ UNCHANGED <<command, args, config, p2p_secret_key, net, fetch_client, site,
                   attempts, inflight, response, header, hash, out, result, obs>>

(* Header arm: (move || get_single_header(fetch_client.clone(), id)).retry(backoff) *)
StartHeader ==
    /\ pc = "retry_header"
    /\ site' = "header"
    /\ attempts' = 0
    /\ pc' = "call"
    /\ UNCHANGED <<command, args, config, p2p_secret_key, net, fetch_client, backoff,
                   inflight, response, header, hash, out, result, obs>>

(* Variant: a header is looked up for every id, hash or number. *)
ResolveHash_lookup_first ==
    /\ pc = "resolve"
    /\ command.id.tag = "Hash"
    /\ site' = "lookup"
    /\ attempts' = 0
    /\ pc' = "call"
    /\ UNCHANGED <<command, args, config, p2p_secret_key, net, fetch_client, backoff,
                   inflight, response, header, hash, out, result, obs>>

(* let hash = match id { BlockHashOrNumber::Hash(hash) => hash, ..         *)
ResolveHash ==
    /\ pc = "resolve"
    /\ command.id.tag = "Hash"
    /\ hash' = Some(command.id.val)
    /\ pc' = "retry_body"
    /\ UNCHANGED <<command, args, config, p2p_secret_key, net, fetch_client, backoff,
                   site, attempts, inflight, response, header, out, result, obs>>

(* Variant: the number is taken for the hash and the bodies request is     *)
(* started without a header lookup.                                        *)
ResolveNumber_skip_lookup ==
    /\ pc = "resolve"
    /\ command.id.tag = "Number"
    /\ hash' = Some(command.id.val)
    /\ pc' = "retry_body"
    /\ UNCHANGED <<command, args, config, p2p_secret_key, net, fetch_client, backoff,
                   site, attempts, inflight, response, header, out, result, obs>>

(* BlockHashOrNumber::Number(number) => { println!(..); (move || ..).retry(backoff) *)
ResolveNumber ==
    /\ pc = "resolve"
    /\ command.id.tag = "Number"
    /\ out' = Append(out, [line |-> "notice", val |-> NoneV])
    /\ site' = "lookup"
    /\ attempts' = 0
    /\ pc' = "call"
    /\ UNCHANGED <<command, args, config, p2p_secret_key, net, fetch_client, backoff,
                   inflight, response, header, hash, result, obs>>

(* Variant: the bodies request goes on with the backoff the header lookup  *)
(* has used, instead of a fresh one built from the copied builder.         *)
StartBody_shared_backoff ==
    /\ pc = "retry_body"
    /\ site' = "body"
    /\ pc' = "call"
    /\ UNCHANGED <<command, args, config, p2p_secret_key, net, fetch_client, backoff,
                   attempts, inflight, response, header, hash, out, result, obs>>

(* (move || { client.get_block_bodies(vec![hash]) }).retry(backoff)        *)
StartBody ==
    /\ pc = "retry_body"
    /\ site' = "body"
    /\ attempts' = 0
    /\ pc' = "call"
    /\ UNCHANGED <<command, args, config, p2p_secret_key, net, fetch_client, backoff,
                   inflight, response, header, hash, out, result, obs>>

(* Variant: the Header arm's closure written like the lookup closure of    *)
(* the Body arm, wrapping the id's value in Number whatever the id is.     *)
request_of_always_number(s) ==
    CASE s = "header" -> [kind |-> "header", id |-> NumberId(command.id.val)]
      [] s = "lookup" -> [kind |-> "header", id |-> NumberId(command.id.val)]
      [] s = "body"   -> [kind |-> "bodies", hashes |-> <<hash.val>>]

(* What the closure of a call site asks of the fetch client. *)
request_of(s) ==
    CASE s = "header" -> [kind |-> "header", id |-> command.id]
      [] s = "lookup" -> [kind |-> "header", id |-> NumberId(command.id.val)]
      [] s = "body"   -> [kind |-> "bodies", hashes |-> <<hash.val>>]

(* Retry::poll, State::Idle: call the closure, poll the future it returns. *)
Call ==
    /\ pc = "call"
    /\ LET rq == request_of(site)
       IN  /\ inflight' = Append(inflight, rq)
           /\ asked_headers' = IF rq.kind = "header"
                               THEN asked_headers \cup {rq.id} ELSE asked_headers
           /\ asked_bodies' = IF rq.kind = "bodies"
                              THEN asked_bodies \cup {rq.hashes} ELSE asked_bodies
    /\ reqs' = [reqs EXCEPT ![site] = @ + 1]
    /\ pc' = "await"
    /\ UNCHANGED <<command, args, config, p2p_secret_key, net, fetch_client, backoff,
                   site, attempts, response, header, hash, out, result,
                   notes, noted_err, answers, delays>>

(* The answers a request can resolve to: get_single_header gives a header  *)
(* or an error, get_block_bodies a WithPeerId<Vec<Body>> or an error.      *)
AnswersTo(rq) ==
    {Failed(e) : e \in Errors}
    \cup (IF rq.kind = "header" THEN {Ok(h) : h \in Headers}
                                ELSE {Ok(r) : r \in BodiesResponses})

(* The spawned network manager runs on its own (tokio::task::spawn(net)):  *)
(* a peer session comes up or goes down, whatever the foreground flow does. *)
NetworkPoll ==
    /\ net.state = "spawned"
    /\ net' = [net EXCEPT !.sessions = 1 - @]
    /\ UNCHANGED <<command, args, config, pc, p2p_secret_key, fetch_client, backoff,
                   site, attempts, inflight, response, header, hash, out, result, obs>>

(* Variant: a request that ended in an error stays outstanding. *)
Respond_keeps_failed_request ==
    /\ pc = "await"
    /\ inflight # <<>>
    /\ net.state = "spawned"
    /\ \E a \in AnswersTo(Head(inflight)) :
         /\ a.ok => net.sessions > 0
         /\ response' = Some(a)
         /\ answers' = [answers EXCEPT ![site] = Some(a)]
         /\ inflight' = IF a.ok THEN Tail(inflight) ELSE inflight
    /\ pc' = "polled"
    /\ UNCHANGED <<command, args, config, p2p_secret_key, net, fetch_client, backoff,
                   site, attempts, header, hash, out, result,
                   reqs, notes, noted_err, asked_headers, asked_bodies, delays>>

(* The spawned network resolves the outstanding request: with an error, or *)
(* with what a connected peer sent.                                        *)
Respond ==
    /\ pc = "await"
    /\ inflight # <<>>
    /\ net.state = "spawned"
    /\ \E a \in AnswersTo(Head(inflight)) :
         /\ a.ok => net.sessions > 0
         /\ response' = Some(a)
         /\ answers' = [answers EXCEPT ![site] = Some(a)]
    /\ inflight' = Tail(inflight)
    /\ pc' = "polled"
    /\ UNCHANGED <<command, args, config, p2p_secret_key, net, fetch_client, backoff,
                   site, attempts, header, hash, out, result,
                   reqs, notes, noted_err, asked_headers, asked_bodies, delays>>

(* Retry::poll, Ok(v) => return Ready(Ok(v)); the caller binds the value.  *)
RetryOk ==
    /\ pc = "polled"
    /\ response.val.ok
    /\ pc' = CASE site = "header" -> "print_header"
               [] site = "lookup" -> "header_hash"
               [] site = "body"   -> "validate"
    /\ header' = IF site \in {"header", "lookup"} THEN Some(response.val.val) ELSE header
    /\ UNCHANGED <<command, args, config, p2p_secret_key, net, fetch_client, backoff,
                   site, attempts, inflight, response, hash, out, result, obs>>

(* Variant: a retry that sleeps without calling the notify closure. *)
RetryAgain_no_notify ==
    /\ pc = "polled"
    /\ ~response.val.ok
    /\ backoff_next(backoff.val, attempts).some
    /\ attempts' = attempts + 1
    /\ pc' = "sleep"
    /\ UNCHANGED <<command, args, config, p2p_secret_key, net, fetch_client, backoff,
                   site, inflight, response, header, hash, out, result, obs>>

(* Retry::poll, Err(err), backoff.next() = Some(dur): notify(&err, dur),   *)
(* then sleep(dur).                                                        *)
RetryAgain ==
    /\ pc = "polled"
    /\ ~response.val.ok
    /\ backoff_next(backoff.val, attempts).some
    /\ attempts' = attempts + 1
    /\ notes' = [notes EXCEPT ![site] = @ + 1]
    /\ noted_err' = Some(response.val.err)
    /\ pc' = "sleep"
    /\ UNCHANGED <<command, args, config, p2p_secret_key, net, fetch_client, backoff,
                   site, inflight, response, header, hash, out, result,
                   reqs, answers, asked_headers, asked_bodies, delays>>

(* Retry::poll, State::Sleeping: the delay elapsed, back to State::Idle.   *)
SleepElapsed ==
    /\ pc = "sleep"
    /\ delays' = Append(delays, backoff_next(backoff.val, attempts - 1).val)
    /\ response' = NoneV
    /\ pc' = "call"
    /\ UNCHANGED <<command, args, config, p2p_secret_key, net, fetch_client, backoff,
                   site, attempts, inflight, header, hash, out, result,
                   reqs, notes, noted_err, answers, asked_headers, asked_bodies>>

(* Variant: on exhaustion the error of the attempt that was notified last  *)
(* is returned instead of the error of the final attempt.                  *)
RetryExhausted_earlier_error ==
    /\ pc = "polled"
    /\ ~response.val.ok
    /\ ~backoff_next(backoff.val, attempts).some
    /\ result' = Err("Request", IF noted_err.some THEN noted_err.val ELSE response.val.err)
    /\ pc' = "done"
    /\ UNCHANGED <<command, args, config, p2p_secret_key, net, fetch_client, backoff,
                   site, attempts, inflight, response, header, hash, out, obs>>

(* Retry::poll, Err(err), backoff.next() = None: return Ready(Err(err));   *)
(* the `?` after .await returns it from execute.                           *)
RetryExhausted ==
    /\ pc = "polled"
    /\ ~response.val.ok
    /\ ~backoff_next(backoff.val, attempts).some
    /\ result' = Err("Request", response.val.err)
    /\ pc' = "done"
    /\ UNCHANGED <<command, args, config, p2p_secret_key, net, fetch_client, backoff,
                   site, attempts, inflight, response, header, hash, out, obs>>

(* println!("Successfully downloaded header: {header:?}"); Ok(())          *)
PrintHeader ==
    /\ pc = "print_header"
    /\ out' = Append(out, [line |-> "header", val |-> header])
    /\ result' = OkUnit
    /\ pc' = "done"
    /\ UNCHANGED <<command, args, config, p2p_secret_key, net, fetch_client, backoff,
                   site, attempts, inflight, response, header, hash, obs>>

(* Variant: the header's parent hash is taken for its hash. *)
HeaderHash_parent ==
    /\ pc = "header_hash"
    /\ hash' = Some(header.val.parent_hash)
    /\ header' = NoneV
    /\ response' = NoneV
    /\ pc' = "retry_body"
    /\ UNCHANGED <<command, args, config, p2p_secret_key, net, fetch_client, backoff,
                   site, attempts, inflight, out, result, obs>>

(* header.hash(), the value of the Number arm; `header` goes out of scope. *)
HeaderHash ==
    /\ pc = "header_hash"
    /\ hash' = Some(hash_slow(header.val))
    /\ header' = NoneV
    /\ response' = NoneV
    /\ pc' = "retry_body"
    /\ UNCHANGED <<command, args, config, p2p_secret_key, net, fetch_client, backoff,
                   site, attempts, inflight, out, result, obs>>

(* Variant: only an empty response is rejected. *)
count_mismatch_only_empty(data) == Len(data) = 0

(* if result.len() != 1 *)
count_mismatch(data) == Len(data) # 1

(* Variant: a response of the wrong length is asked for again. *)
ValidateBody_retry_mismatch ==
    /\ pc = "validate"
    /\ LET data == split(response.val.val)[2]
       IN  IF count_mismatch(data)
           THEN /\ result' = result
                /\ out' = out
                /\ pc' = "call"
           ELSE /\ result' = OkUnit
                /\ out' = Append(out, [line |-> "body", val |-> Some(Head(data))])
                /\ pc' = "done"
    /\ UNCHANGED <<command, args, config, p2p_secret_key, net, fetch_client, backoff,
                   site, attempts, inflight, response, header, hash, obs>>

(* let (_, result) = ...split(); if result.len() != 1 { bail!(..) }        *)
(* let body = result.into_iter().next().unwrap(); println!(..); Ok(())     *)
ValidateBody ==
    /\ pc = "validate"
    /\ LET data == split(response.val.val)[2]
       IN  IF count_mismatch(data)
           THEN /\ result' = Err("CountMismatch", [expected |-> 1, received |-> Len(data)])
                /\ out' = out
           ELSE /\ result' = OkUnit
                /\ out' = Append(out, [line |-> "body", val |-> Some(Head(data))])
    /\ pc' = "done"
    /\ UNCHANGED <<command, args, config, p2p_secret_key, net, fetch_client, backoff,
                   site, attempts, inflight, response, header, hash, obs>>

Next ==
    \/ LoadConfig \/ ExtendTrusted \/ CheckTrusted \/ SetTrustedOnly
    \/ GetSecretKey \/ BuildManager \/ SpawnNet
    \/ FetchClient \/ Backoff
    \/ StartHeader \/ ResolveHash \/ ResolveNumber \/ StartBody
    \/ Call \/ Respond \/ RetryOk \/ RetryAgain \/ SleepElapsed \/ RetryExhausted
    \/ PrintHeader \/ HeaderHash \/ ValidateBody
    \/ NetworkPoll

Spec == Init /\ [][Next]_vars

(* The steps of the foreground flow, with the answers to its requests: all *)
(* of Next but the manager's own activity.                                 *)
Flow ==
    \/ LoadConfig \/ ExtendTrusted \/ CheckTrusted \/ SetTrustedOnly
    \/ GetSecretKey \/ BuildManager \/ SpawnNet
    \/ FetchClient \/ Backoff
    \/ StartHeader \/ ResolveHash \/ ResolveNumber \/ StartBody
    \/ Call \/ Respond \/ RetryOk \/ RetryAgain \/ SleepElapsed \/ RetryExhausted
    \/ PrintHeader \/ HeaderHash \/ ValidateBody

(* The runs in which the executor keeps polling the foreground future,     *)
(* every request is eventually resolved and every sleep eventually ends.   *)
FairSpec == Init /\ [][Next]_vars /\ WF_vars(Flow)

(* ============================== claims =============================== *)
IsErr(kind) == result.status = "err" /\ result.kind = kind

SuccessLines == {i \in 1..Len(out) : out[i].line \in {"header", "body"}}

(* C1, as stated: for every retry count r and every wrapped request the    *)
(* number of attempts never exceeds max(1, r), is exactly max(1, r) when   *)
(* every attempt fails, and with r = 0 a single failure is fatal.          *)
C1_AttemptsAtMostMaxRetries ==
    /\ \A s \in Sites : reqs[s] <= Max(args.retries, 1)
    /\ IsErr("Request") => reqs[site] = Max(args.retries, 1)
    /\ (IsErr("Request") /\ args.retries = 0) => (reqs[site] = 1 /\ notes[site] = 0)

(* C1, amended: max(1, r) bounds the retries, not the attempts.  For every *)
(* retry count r and every wrapped request the number of attempts never    *)
(* exceeds 1 + max(1, r) and is exactly 1 + max(1, r) when every attempt   *)
(* fails; with r = 0 the first failure is retried once and the second      *)
(* failure fails the command.                                              *)
C1_AttemptsAtMostOnePlusRetries ==
    /\ \A s \in Sites : reqs[s] <= 1 + Max(args.retries, 1)
    /\ IsErr("Request") => reqs[site] = 1 + Max(args.retries, 1)
    /\ (IsErr("Request") /\ args.retries = 0) => (reqs[site] = 2 /\ notes[site] = 1)

(* C1 witness: with --retries 0 every attempt of the body request failed.  *)
C1_Witness ==
    /\ IsErr("Request")
    /\ args.retries = 0
    /\ site = "body"
    /\ reqs["body"] = 2

(* C2: when the first k-1 attempts of a wrapped request fail and the k-th  *)
(* succeeds, the caller gets the k-th attempt's value, exactly k-1 retry   *)
(* notifications were emitted, each before the next attempt started, and   *)
(* no attempt follows the k-th.                                            *)
C2_SuccessAfterFailures ==
    \A s \in Sites :
        /\ (site = s /\ pc \in {"await", "polled"}) => notes[s] = reqs[s] - 1
        /\ (site = s /\ pc \in {"call", "sleep"}) => notes[s] = reqs[s]
        /\ (answers[s].some /\ answers[s].val.ok) =>
              /\ ~(site = s /\ pc \in {"call", "await", "sleep"})
              /\ notes[s] = reqs[s] - 1
        /\ (s = "header" /\ pc = "print_header") => header = Some(answers[s].val.val)
        /\ (s = "lookup" /\ pc = "header_hash") => header = Some(answers[s].val.val)
        /\ (s = "body" /\ pc = "validate") => response = answers[s]
        /\ (s = "header" /\ result.status = "ok" /\ command.kind = "Header") =>
              out[Len(out)] = [line |-> "header", val |-> Some(answers[s].val.val)]

(* C2 witness: two failed header attempts, then a success, delivered.      *)
C2_Witness ==
    /\ command.kind = "Header"
    /\ result.status = "ok"
    /\ reqs["header"] = 3
    /\ notes["header"] = 2

(* C3: when every attempt of a wrapped request fails, the error of the     *)
(* last attempt is what execute returns, the final failed attempt is not   *)
(* notified, and no "Successfully downloaded" line is printed.             *)
C3_LastErrorPropagated ==
    /\ (pc = "done" /\ site # "none" /\ ~answers[site].val.ok) =>
          result = Err("Request", answers[site].val.err)
    /\ IsErr("Request") =>
          /\ pc = "done"
          /\ ~answers[site].val.ok
          /\ result.detail = answers[site].val.err
          /\ notes[site] = reqs[site] - 1
          /\ SuccessLines = {}

(* C3 witness: retries exhausted, the last error differs from the one that *)
(* was notified before it.                                                 *)
C3_Witness ==
    /\ IsErr("Request")
    /\ noted_err.some
    /\ noted_err.val # result.detail

BodyAnswered == answers["body"].some /\ answers["body"].val.ok

(* C4: in the body path a successful response of length 1 yields its one   *)
(* entry as the body; a response of any other length (0, 2, ..) fails the  *)
(* command with a count mismatch reporting expected 1 and the length       *)
(* received, whatever the entries are; no header is kept and no body line  *)
(* is printed.                                                             *)
C4_BodyCountValidated ==
    (pc = "done" /\ site = "body" /\ BodyAnswered) =>
        LET data == answers["body"].val.val.data
        IN  IF Len(data) = 1
            THEN /\ result = OkUnit
                 /\ out[Len(out)] = [line |-> "body", val |-> Some(data[1])]
            ELSE /\ result = Err("CountMismatch", [expected |-> 1, received |-> Len(data)])
                 /\ header = NoneV
                 /\ SuccessLines = {}

(* C4 witness: a header was fetched for a number, then the bodies response *)
(* came with two entries and the command failed.                           *)
C4_Witness ==
    /\ IsErr("CountMismatch")
    /\ result.detail.received = 2
    /\ command.id.tag = "Number"
    /\ reqs["lookup"] > 0

(* C5: a count mismatch is never retried: once a bodies response of length *)
(* other than 1 has arrived no request is issued any more, even with       *)
(* retries left; an attempt after the first is made only after a failed    *)
(* one, the retries consumed are the failures notified, and a              *)
(* configuration error is returned without any request.                    *)
C5_MismatchNeverRetried ==
    /\ (BodyAnswered /\ Len(answers["body"].val.val.data) # 1) =>
          /\ pc \in {"polled", "validate", "done"}
          /\ inflight = <<>>
          /\ pc = "done" => IsErr("CountMismatch")
    /\ \A s \in Sites :
          /\ (site = s /\ pc = "sleep") => ~answers[s].val.ok
          /\ (site = s /\ pc = "call" /\ reqs[s] > 0) => ~answers[s].val.ok
          /\ (site = s /\ pc = "await" /\ reqs[s] > 1) => ~answers[s].val.ok
          /\ site = s => attempts = notes[s]
    /\ IsErr("NoTrustedNodes") => (reqs = Zero /\ notes = Zero)

(* C5 witness: one body attempt failed and was retried, the next answer    *)
(* had the wrong length, and the command failed with a retry still unused. *)
C5_Witness ==
    /\ IsErr("CountMismatch")
    /\ notes["body"] = 1
    /\ backoff_next(backoff.val, attempts).some

(* C6: in the body path with Hash(h) the hash is h itself, no header is    *)
(* ever requested, and every bodies request asks for exactly [h].          *)
C6_HashResolvesWithoutNetwork ==
    (command.kind = "Body" /\ command.id.tag = "Hash") =>
        /\ asked_headers = {}
        /\ reqs["header"] = 0 /\ reqs["lookup"] = 0
        /\ header = NoneV
        /\ hash.some => hash.val = command.id.val
        /\ asked_bodies \subseteq {<<command.id.val>>}
        /\ reqs["body"] > 0 => asked_bodies = {<<command.id.val>>}

(* C6 witness: Hash(h), the bodies request was made three times.           *)
C6_Witness ==
    /\ command.kind = "Body"
    /\ command.id.tag = "Hash"
    /\ reqs["body"] = 3

(* C7: in the body path with Number(n) headers are requested only for      *)
(* Number(n), and the hash used in every bodies request is the hash of the *)
(* header the successful header attempt returned.                          *)
C7_NumberResolvesToHeaderHash ==
    (command.kind = "Body" /\ command.id.tag = "Number") =>
        /\ asked_headers \subseteq {NumberId(command.id.val)}
        /\ reqs["header"] = 0
        /\ hash.some =>
              /\ answers["lookup"].some /\ answers["lookup"].val.ok
              /\ hash.val = hash_slow(answers["lookup"].val.val)
        /\ reqs["body"] > 0 =>
              /\ hash.some
              /\ asked_bodies = {<<hash_slow(answers["lookup"].val.val)>>}
        /\ reqs["body"] = 0 => asked_bodies = {}

(* C7 witness: Number(n), the header came at the second attempt and the    *)
(* bodies request was repeated.                                            *)
C7_Witness ==
    /\ command.kind = "Body"
    /\ command.id.tag = "Number"
    /\ reqs["lookup"] = 2
    /\ reqs["body"] = 2

(* The union the merge is to produce: what the file gave (nothing, when it *)
(* could not be loaded) with the CLI peers.                                *)
MergedTrusted == unwrap_or_default(config.val.loaded).trusted_nodes \cup args.trusted_peers

CheckDone == config.some /\ pc \notin {"extend", "check"}

(* C8: the merge fails exactly when the merged trusted set is empty and    *)
(* trusted-only is set; a non-empty set is accepted with either flag, an   *)
(* empty one with the flag off.                                            *)
C8_EmptyTrustedRejected ==
    CheckDone => (IsErr("NoTrustedNodes") <=> (MergedTrusted = {} /\ args.trusted_only))

(* C8 witness: a parsed file without trusted peers, no CLI peer,           *)
(* --trusted-only: the launch failed.                                      *)
C8_Witness ==
    /\ IsErr("NoTrustedNodes")
    /\ config.val.loaded.ok

(* C9: on an accepted merge the trusted set is the union of the loaded and *)
(* the CLI peers and trusted_nodes_only is the CLI flag, whatever the file *)
(* said; the network is built with that configuration.                     *)
C9_MergeIsUnion ==
    /\ (config.some /\ pc \in {"secret_key", "manager", "spawn"}) =>
          config.val.peers = [trusted_nodes |-> MergedTrusted,
                              trusted_nodes_only |-> args.trusted_only]
    /\ (config.some /\ net.state # "none") => net.peers = config.val.peers
    /\ net.state # "none" =>
          /\ args.trusted_peers \subseteq net.peers.trusted_nodes
          /\ net.peers.trusted_nodes_only = args.trusted_only

(* C9 witness: file and CLI peers overlap, the file has a peer the CLI     *)
(* lacks, and the file's flag differs from the CLI's.                      *)
C9_Witness ==
    /\ config.some /\ pc = "secret_key"
    /\ config.val.loaded.ok
    /\ config.val.loaded.val.trusted_nodes \cap args.trusted_peers # {}
    /\ config.val.loaded.val.trusted_nodes \ args.trusted_peers # {}
    /\ config.val.loaded.val.trusted_nodes_only # args.trusted_only

(* C10: the empty-trusted-set check comes before the key is loaded and the *)
(* network built: when it fails no key is loaded, no network is built or   *)
(* spawned and no request is issued; whenever a network exists,            *)
(* trusted_nodes_only implies a non-empty trusted set.                     *)
C10_CheckBeforeBootstrap ==
    /\ IsErr("NoTrustedNodes") =>
          /\ ~p2p_secret_key
          /\ net.state = "none"
          /\ ~fetch_client
          /\ reqs = Zero /\ inflight = <<>>
          /\ asked_headers = {} /\ asked_bodies = {}
    /\ (p2p_secret_key /\ config.some) =>
          ~(config.val.peers.trusted_nodes = {} /\ args.trusted_only)
    /\ net.state # "none" =>
          (net.peers.trusted_nodes_only => net.peers.trusted_nodes # {})

(* C10 witness: the network runs in trusted-only mode.                     *)
C10_Witness ==
    /\ net.state = "spawned"
    /\ net.peers.trusted_nodes_only
    /\ fetch_client

LoadFailed == config.some /\ ~config.val.loaded.ok

(* What each error a step returns leaves behind: the command is over, and  *)
(* nothing that comes after the failed step has happened.                  *)
ErrorsEndTheCommand ==
    /\ result.status = "err" => pc = "done"
    /\ pc = "done" => result.status \in {"ok", "err"}
    /\ IsErr("NoTrustedNodes") => (~p2p_secret_key /\ net.state = "none" /\ reqs = Zero)
    /\ IsErr("SecretKey") => (~p2p_secret_key /\ net.state = "none" /\ reqs = Zero)
    /\ IsErr("Network") => (net.state = "none" /\ ~fetch_client /\ reqs = Zero)
    /\ IsErr("FetchClient") => (~fetch_client /\ backoff = NoneV /\ reqs = Zero)
    /\ IsErr("Request") => (~answers[site].val.ok /\ SuccessLines = {})
    /\ IsErr("CountMismatch") => SuccessLines = {}
    /\ result.status = "ok" =>
          /\ p2p_secret_key /\ net.state = "spawned" /\ fetch_client
          /\ \A s \in Sites : reqs[s] > 0 => answers[s].val.ok
          /\ reqs["body"] > 0 => Len(answers["body"].val.val.data) = 1
          /\ Cardinality(SuccessLines) = 1

(* C11, as stated: an error in any step, the loading of the persisted      *)
(* configuration included, ends the command in a failure result; no step   *)
(* replaces its error by a default value and goes on.                      *)
C11_AllErrorsSurfaced ==
    /\ ErrorsEndTheCommand
    /\ LoadFailed => (pc = "done" /\ result.status = "err"
                      /\ ~p2p_secret_key /\ net.state = "none")

(* C11, amended: an error of the peer-config check, of identity loading,   *)
(* of network construction, of fetch-client acquisition, of a request      *)
(* whose retries are exhausted or of the body-count validation ends the    *)
(* command in a failure result and nothing after the failed step is done.  *)
(* An error loading the persisted configuration is not surfaced: the       *)
(* default configuration (no trusted peer) takes its place and the launch  *)
(* goes on.                                                                *)
C11_ErrorsSurfacedButConfigLoad ==
    /\ ErrorsEndTheCommand
    /\ LoadFailed =>
          /\ config.val.peers.trusted_nodes \subseteq args.trusted_peers
          /\ pc # "done" \/ result.status = "err"
          /\ result.status = "err" => result.kind # "ConfigError"

(* C11 witness: the configuration could not be loaded and the network was  *)
(* built all the same.                                                     *)
C11_Witness ==
    /\ LoadFailed
    /\ p2p_secret_key
    /\ net.state = "built"

(* C12: in the header path the header is requested, through the retry     *)
(* policy, for the id as it was supplied (hash or number, with no lookup   *)
(* of its own and no bodies request); on success the command prints        *)
(* exactly the header the successful attempt returned, once, and nothing   *)
(* else; without success it prints nothing.                                *)
C12_HeaderVerbatim ==
    command.kind = "Header" =>
        /\ asked_headers \subseteq {command.id}
        /\ reqs["header"] > 0 => asked_headers = {command.id}
        /\ reqs["lookup"] = 0 /\ reqs["body"] = 0 /\ asked_bodies = {}
        /\ hash = NoneV
        /\ result.status = "ok" =>
              /\ answers["header"].val.ok
              /\ out = <<[line |-> "header", val |-> Some(answers["header"].val.val)]>>
        /\ result.status # "ok" => out = <<>>

(* C12 witness: a header asked by number, delivered at the second attempt  *)
(* and printed.                                                            *)
C12_Witness ==
    /\ command.kind = "Header"
    /\ command.id.tag = "Number"
    /\ result.status = "ok"
    /\ reqs["header"] = 2

LookupSucceeded == answers["lookup"].some /\ answers["lookup"].val.ok

(* C13: in the body path with Number(n) no bodies request is issued until  *)
(* a header attempt has succeeded and the hash is set, with no header      *)
(* request outstanding or to come; when the header lookup exhausts its     *)
(* retries no bodies request is ever issued; once set, the hash never      *)
(* changes, so every bodies attempt asks for the same hash.                *)
C13_HeaderBeforeBody ==
    /\ [](  (command.kind = "Body" /\ command.id.tag = "Number") =>
              /\ (reqs["body"] > 0 \/ site = "body") => (LookupSucceeded /\ hash.some)
              /\ hash.some =>
                    /\ LookupSucceeded
                    /\ site = "lookup" => pc = "retry_body"
              /\ (IsErr("Request") /\ site = "lookup") =>
                    (reqs["body"] = 0 /\ asked_bodies = {} /\ hash = NoneV)
              /\ Cardinality(asked_bodies) <= 1
              /\ reqs["body"] > 0 => asked_bodies = {<<hash.val>>}  )
    /\ [][ /\ hash.some => hash' = hash
           /\ reqs'["lookup"] # reqs["lookup"] => ~hash.some ]_vars

(* C13 witness: the header lookup for Number(n) ran out of retries and the *)
(* command ended without a bodies request.                                 *)
C13_Witness ==
    /\ command.kind = "Body"
    /\ command.id.tag = "Number"
    /\ IsErr("Request")
    /\ site = "lookup"
    /\ reqs["lookup"] = 1 + Max(args.retries, 1)

Notified == notes["header"] + notes["lookup"] + notes["body"]

(* C14: the foreground flow has at most one request outstanding, and only  *)
(* while it awaits it; the outstanding request is the one of the running   *)
(* call site; nothing is outstanding during a retry delay; and every       *)
(* notified retry has slept its delay out before the next call is made.    *)
(* The network manager's own steps are interleaved freely.                 *)
C14_OneRequestAtATime ==
    /\ Len(inflight) <= 1
    /\ pc = "await" <=> Len(inflight) = 1
    /\ pc = "await" => inflight[1] = request_of(site)
    /\ pc = "sleep" => Len(delays) = Notified - 1
    /\ pc # "sleep" => Len(delays) = Notified
    /\ \A s \in Sites : reqs[s] > 0 => (site = s \/ (s = "lookup" /\ site = "body"))

(* C14 witness: the second bodies attempt is outstanding, alone, while a   *)
(* peer session is up.                                                     *)
C14_Witness ==
    /\ pc = "await"
    /\ Len(inflight) = 1
    /\ reqs["body"] = 2
    /\ Len(delays) >= 1
    /\ net.sessions = 1

AttemptBudget == 1 + Max(args.retries, 1)

(* C15: the retry budget is per request and the policy never changes: the  *)
(* builder stays what backoff() returned, every wrapped request starts     *)
(* with no retry consumed, the retries a request consumes are its own      *)
(* notified failures, a bodies request that fails throughout makes the     *)
(* full number of attempts whatever the header lookup consumed, and one    *)
(* command issues at most twice the per-request number of attempts.        *)
C15_BudgetPerRequest ==
    /\ backoff.some =>
          backoff.val = [delay |-> DefaultDelayMs, max_times |-> Max(args.retries, 1)]
    /\ \A s \in Sites :
          /\ (site = s /\ reqs[s] = 0) => attempts = 0
          /\ site = s => attempts = notes[s]
          /\ reqs[s] <= AttemptBudget
    /\ (IsErr("Request") /\ site = "body") => reqs["body"] = AttemptBudget
    /\ reqs["header"] + reqs["lookup"] + reqs["body"] <= 2 * AttemptBudget

(* C15 witness: the header lookup succeeded at its last attempt and the    *)
(* bodies request then used all its attempts too.                          *)
C15_Witness ==
    /\ IsErr("Request")
    /\ site = "body"
    /\ reqs["lookup"] = AttemptBudget
    /\ reqs["body"] = AttemptBudget

(* C16: when the flow keeps being polled, every request is eventually     *)
(* resolved and every delay eventually elapses, the header command and the *)
(* body command end, in success or in failure; the retries of one command  *)
(* never exceed twice max(1, retries).                                     *)
C16_Terminates ==
    /\ <>(pc = "done" /\ result.status \in {"ok", "err"})
    /\ [](Notified <= 2 * Max(args.retries, 1))

(* C16 witness: a body command that used every retry of the header lookup  *)
(* and of the bodies request and then succeeded.                           *)
C16_Witness ==
    /\ pc = "done"
    /\ result.status = "ok"
    /\ notes["lookup"] = Max(args.retries, 1)
    /\ notes["body"] = Max(args.retries, 1)

NothingRequested ==
    /\ reqs = Zero /\ notes = Zero /\ delays = <<>>
    /\ inflight = <<>> /\ asked_headers = {} /\ asked_bodies = {}
    /\ site = "none" /\ attempts = 0

(* C17: a request is issued only once the key is loaded, the network       *)
(* manager spawned and a fetch client obtained; when identity loading,     *)
(* network construction or fetch-client acquisition fails the command      *)
(* fails at once: no request, no retry, no delay.                          *)
C17_RequestsAfterClient ==
    /\ ~NothingRequested => (p2p_secret_key /\ net.state = "spawned" /\ fetch_client)
    /\ fetch_client => net.state = "spawned"
    /\ net.state # "none" => p2p_secret_key
    /\ (IsErr("SecretKey") \/ IsErr("Network") \/ IsErr("FetchClient")) =>
          (pc = "done" /\ NothingRequested /\ backoff = NoneV /\ out = <<>>)

(* C17 witness: the manager was spawned, a peer session came up, and       *)
(* fetch_client() failed.                                                  *)
C17_Witness ==
    /\ IsErr("FetchClient")
    /\ net.state = "spawned"
    /\ net.sessions = 1

(* C18: every wait before a retry is the same fixed delay, the one of the  *)
(* builder, whatever the attempt, the error and the request retried.       *)
C18_ConstantDelay ==
    /\ \A i \in 1..Len(delays) : delays[i] = DefaultDelayMs
    /\ \A i, j \in 1..Len(delays) : delays[i] = delays[j]
    /\ backoff.some => backoff.val.delay = DefaultDelayMs

(* C18 witness: one retry of the header lookup and two of the bodies       *)
(* request, after errors of both kinds.                                    *)
C18_Witness ==
    /\ Len(delays) = 3
    /\ notes["lookup"] = 1
    /\ notes["body"] = 2
    /\ pc = "done"
    /\ ~answers["body"].val.ok
    /\ noted_err.val # answers["body"].val.err

====
